---- MODULE Spec2Model ----
(***************************************************************************)
(* btrfs-snapshots-diff: the send-stream parser (BtrfsStreamParser) and    *)
(* the part of main() that drives it.  The stream is a sequence of bytes;  *)
(* every read of it is modelled as the code performs it: a Python slice    *)
(* (which silently truncates at the end of the buffer) followed by         *)
(* struct.unpack (which raises unless the slice has exactly the size of    *)
(* the format).                                                            *)
(***************************************************************************)
EXTENDS Integers, Sequences, FiniteSets, TLC

VARIABLES
    stream,     \* self.stream: the whole input buffer, a sequence of bytes
    bogus,      \* the bogus argument main() passes to decode()
    version,    \* self.version: a number, or None
    pc,         \* where main() is
    offset,     \* parse(): offset at the top of the while loop
    cmd_ref,    \* parse(): cmd_ref at the top of the while loop
    commands,   \* decode(): commands
    paths,      \* decode(): paths (OrderedDict, as a sequence of entries)
    ret,        \* main(): what decode() returned, None before and on a raise
    err,        \* the exception that left main(), None if none
    tlv_calls   \* history: the _tlv_get* calls made so far, with their locals

vars == <<stream, bogus, version, pc, offset, cmd_ref, commands, paths, ret,
          err, tlv_calls>>

\* None, for self.version (an unpacked "I" is never negative)
None == -1

-----------------------------------------------------------------------------
(* Catalogs *)

\* BTRFS_SEND_STREAM_MAGIC = b"btrfs-stream"
BTRFS_SEND_STREAM_MAGIC ==
    <<98, 116, 114, 102, 115, 45, 115, 116, 114, 101, 97, 109>>

\* class SendCmd(Enum): member names, member i+1 has value i
SendCmd ==
    << "BTRFS_SEND_C_UNSPEC", "BTRFS_SEND_C_SUBVOL", "BTRFS_SEND_C_SNAPSHOT",
       "BTRFS_SEND_C_MKFILE", "BTRFS_SEND_C_MKDIR", "BTRFS_SEND_C_MKNOD",
       "BTRFS_SEND_C_MKFIFO", "BTRFS_SEND_C_MKSOCK", "BTRFS_SEND_C_SYMLINK",
       "BTRFS_SEND_C_RENAME", "BTRFS_SEND_C_LINK", "BTRFS_SEND_C_UNLINK",
       "BTRFS_SEND_C_RMDIR", "BTRFS_SEND_C_SET_XATTR",
       "BTRFS_SEND_C_REMOVE_XATTR", "BTRFS_SEND_C_WRITE",
       "BTRFS_SEND_C_CLONE", "BTRFS_SEND_C_TRUNCATE", "BTRFS_SEND_C_CHMOD",
       "BTRFS_SEND_C_CHOWN", "BTRFS_SEND_C_UTIMES", "BTRFS_SEND_C_END",
       "BTRFS_SEND_C_UPDATE_EXTENT", "BTRFS_SEND_C_FALLOCATE",
       "BTRFS_SEND_C_FILEATTR", "BTRFS_SEND_C_ENCODED_WRITE",
       "BTRFS_SEND_C_ENABLE_VERITY" >>

\* SendCmd.<name>.value
SendCmdValue(name) == CHOOSE v \in 0..(Len(SendCmd) - 1) : SendCmd[v + 1] = name

\* command[13:].lower(), for each member of SendCmd
CmdShort ==
    << "unspec", "subvol", "snapshot", "mkfile", "mkdir", "mknod", "mkfifo",
       "mksock", "symlink", "rename", "link", "unlink", "rmdir", "set_xattr",
       "remove_xattr", "write", "clone", "truncate", "chmod", "chown",
       "utimes", "end", "update_extent", "fallocate", "fileattr",
       "encoded_write", "enable_verity" >>

\* class SendAttr(Enum): member names, member i+1 has value i
SendAttr ==
    << "BTRFS_SEND_A_UNSPEC", "BTRFS_SEND_A_UUID", "BTRFS_SEND_A_CTRANSID",
       "BTRFS_SEND_A_INO", "BTRFS_SEND_A_SIZE", "BTRFS_SEND_A_MODE",
       "BTRFS_SEND_A_UID", "BTRFS_SEND_A_GID", "BTRFS_SEND_A_RDEV",
       "BTRFS_SEND_A_CTIME", "BTRFS_SEND_A_MTIME", "BTRFS_SEND_A_ATIME",
       "BTRFS_SEND_A_OTIME", "BTRFS_SEND_A_XATTR_NAME",
       "BTRFS_SEND_A_XATTR_DATA", "BTRFS_SEND_A_PATH", "BTRFS_SEND_A_PATH_TO",
       "BTRFS_SEND_A_PATH_LINK", "BTRFS_SEND_A_FILE_OFFSET",
       "BTRFS_SEND_A_DATA", "BTRFS_SEND_A_CLONE_UUID",
       "BTRFS_SEND_A_CLONE_CTRANSID", "BTRFS_SEND_A_CLONE_PATH",
       "BTRFS_SEND_A_CLONE_OFFSET", "BTRFS_SEND_A_CLONE_LEN",
       "BTRFS_SEND_A_FALLOCATE_MODE", "BTRFS_SEND_A_FILEATTR",
       "BTRFS_SEND_A_UNENCODED_FILE_LEN", "BTRFS_SEND_A_UNENCODED_LEN",
       "BTRFS_SEND_A_UNENCODED_OFFSET", "BTRFS_SEND_A_COMPRESSION",
       "BTRFS_SEND_A_ENCRYPTION", "BTRFS_SEND_A_VERITY_ALGORITHM",
       "BTRFS_SEND_A_VERITY_BLOCK_SIZE", "BTRFS_SEND_A_VERITY_SALT_DATA",
       "BTRFS_SEND_A_VERITY_SIG_DATA" >>

SendAttrValue(name) == CHOOSE v \in 0..(Len(SendAttr) - 1) : SendAttr[v + 1] = name

BTRFS_UUID_SIZE == 16
l_head == 10
l_tlv == 4
\* len("btrfs-stream") + 1 + 4: the size of "<12scI", the header
l_stream_head == 17

-----------------------------------------------------------------------------
(* Exceptions.  text is the fixed part of the message, name and num the    *)
(* value the message is formatted with ("" and -1 when there is none).     *)

Exc(type, text, name, num) ==
    [type |-> type, text |-> text, name |-> name, num |-> num]

\* struct.error: unpack requires a buffer of n bytes
StructError(n) == Exc("struct.error", "unpack requires a buffer of", "", n)

\* no exception
NoExc == Exc("None", "", "", -1)

-----------------------------------------------------------------------------
(* Bytes *)

Min(a, b) == IF a <= b THEN a ELSE b

\* s[a:b] for 0 <= a, 0 <= b: truncated at the end of s, never an error
PySlice(s, a, b) == SubSeq(s, Min(a, Len(s)) + 1, Min(b, Len(s)))

\* the value of a little-endian unsigned integer ("<H", "<I", "<L", "<Q")
RECURSIVE LittleEndian(_)
LittleEndian(bytes) ==
    IF bytes = <<>> THEN 0
    ELSE Head(bytes) + 256 * LittleEndian(Tail(bytes))

HexDigits ==
    <<"0", "1", "2", "3", "4", "5", "6", "7", "8", "9", "a", "b", "c", "d",
      "e", "f">>

\* "%02x" % x
Hex02(x) == <<HexDigits[(x \div 16) + 1], HexDigits[(x % 16) + 1]>>

\* "".join(["%02x" % x for x in ret])
RECURSIVE HexJoin(_)
HexJoin(bytes) ==
    IF bytes = <<>> THEN <<>> ELSE Hex02(Head(bytes)) \o HexJoin(Tail(bytes))

IsCont(s, i) == i <= Len(s) /\ s[i] >= 128 /\ s[i] <= 191

\* bytes.decode("utf8"), strict: the sequence of code points, or the failure
RECURSIVE Utf8Decode(_)
Utf8Decode(s) ==
    IF s = <<>> THEN [ok |-> TRUE, val |-> <<>>]
    ELSE
      LET b == s[1]
          n == IF b < 128 THEN 1
               ELSE IF b >= 194 /\ b <= 223 /\ IsCont(s, 2) THEN 2
               ELSE IF b >= 224 /\ b <= 239 /\ IsCont(s, 2) /\ IsCont(s, 3)
                       /\ (b = 224 => s[2] >= 160)
                       /\ (b = 237 => s[2] <= 159) THEN 3
               ELSE IF b >= 240 /\ b <= 244 /\ IsCont(s, 2) /\ IsCont(s, 3)
                       /\ IsCont(s, 4)
                       /\ (b = 240 => s[2] >= 144)
                       /\ (b = 244 => s[2] <= 143) THEN 4
               ELSE 0
          cp == IF n = 1 THEN b
                ELSE IF n = 2 THEN (b - 192) * 64 + (s[2] - 128)
                ELSE IF n = 3 THEN
                    (b - 224) * 4096 + (s[2] - 128) * 64 + (s[3] - 128)
                ELSE (b - 240) * 262144 + (s[2] - 128) * 4096
                     + (s[3] - 128) * 64 + (s[4] - 128)
      IN IF n = 0
         THEN [ok |-> FALSE,
               err |-> Exc("UnicodeDecodeError", "'utf-8' codec can't decode",
                           "", b)]
         ELSE LET rest == Utf8Decode(SubSeq(s, n + 1, Len(s)))
              IN IF rest.ok THEN [ok |-> TRUE, val |-> <<cp>> \o rest.val]
                 ELSE rest

-----------------------------------------------------------------------------
(* _tlv_get*: every getter returns [ok, index, val, attr, l_attr, err];     *)
(* attr and l_attr are -1 when the 4-byte attribute header was not read.    *)

TlvFail(attr, l_attr, e) ==
    [ok |-> FALSE, index |-> -1, val |-> None, attr |-> attr,
     l_attr |-> l_attr, err |-> e]

TlvOk(index, val, attr, l_attr) ==
    [ok |-> TRUE, index |-> index, val |-> val, attr |-> attr,
     l_attr |-> l_attr, err |-> NoExc]

\* faulty variant: the attribute read is not compared with the expected one
UnexpectedAttr_Unchecked(attr, attr_type) == FALSE

\* SendAttr(attr).name != attr_type, for attr a member of SendAttr
UnexpectedAttr(attr, attr_type) == SendAttr[attr + 1] # attr_type

\* the message of the ValueError raised on an unexpected attribute:
\* f"Unexpected attribute {SendAttr(attr).name}"
UnexpectedAttrError(attr, attr_type) ==
    Exc("ValueError", "Unexpected attribute", SendAttr[attr + 1], -1)

\* The first two statements of every getter, on the 4 bytes they slice:
\*   attr, l_attr = unpack("<HH", self.stream[index : index + self.l_tlv])
\*   if SendAttr(attr).name != attr_type: raise ValueError(...)
\* SendAttr(attr) itself raises ValueError when attr is no member.
TlvHeadOf(head, attr_type, index) ==
    IF Len(head) # l_tlv THEN TlvFail(-1, -1, StructError(l_tlv))
    ELSE
      LET attr == LittleEndian(SubSeq(head, 1, 2))
          l_attr == LittleEndian(SubSeq(head, 3, 4))
      IN IF attr >= Len(SendAttr)
         THEN TlvFail(attr, l_attr,
                      Exc("ValueError", "is not a valid SendAttr", "", attr))
         ELSE IF UnexpectedAttr(attr, attr_type)
         THEN TlvFail(attr, l_attr, UnexpectedAttrError(attr, attr_type))
         ELSE TlvOk(index, None, attr, l_attr)

TlvHead(attr_type, index) ==
    TlvHeadOf(PySlice(stream, index, index + l_tlv), attr_type, index)

\* self.stream[index + self.l_tlv : index + self.l_tlv + l_attr]
TlvPayload(index, l_attr) ==
    PySlice(stream, index + l_tlv, index + l_tlv + l_attr)

\* unpack(f"<{l_attr}B", payload); h is what TlvHead gave
RawOf(h, payload, index) ==
    IF Len(payload) # h.l_attr
    THEN TlvFail(h.attr, h.l_attr, StructError(h.l_attr))
    ELSE TlvOk(index + l_tlv + h.l_attr, payload, h.attr, h.l_attr)

\* ret.decode("utf8") of what RawOf gave
DecodedOf(r, text) ==
    IF text.ok THEN [r EXCEPT !.val = text.val]
    ELSE TlvFail(r.attr, r.l_attr, text.err)

\* unpack(f"<{l_attr}s", payload), then ret.decode("utf8")
StringOf(r) == IF ~r.ok THEN r ELSE DecodedOf(r, Utf8Decode(r.val))

\* unpack("<Q", payload): the format does not depend on l_attr
U64Of(h, payload, index) ==
    IF Len(payload) # 8 THEN TlvFail(h.attr, h.l_attr, StructError(8))
    ELSE TlvOk(index + l_tlv + h.l_attr, LittleEndian(payload), h.attr,
               h.l_attr)

\* unpack(f"<{self.BTRFS_UUID_SIZE}B", payload), then the "%02x" join
UuidOf(h, payload, index) ==
    IF Len(payload) # BTRFS_UUID_SIZE
    THEN TlvFail(h.attr, h.l_attr, StructError(BTRFS_UUID_SIZE))
    ELSE TlvOk(index + l_tlv + h.l_attr, HexJoin(payload), h.attr, h.l_attr)

\* float(sec) + nanos * 1e-9, kept as the pair it is computed from
Timespec(sec, nanos) == [sec |-> sec, nanos |-> nanos]

\* sec, nanos = unpack("<QL", payload)
TimespecOf(h, payload, index) ==
    IF Len(payload) # 12 THEN TlvFail(h.attr, h.l_attr, StructError(12))
    ELSE TlvOk(index + l_tlv + h.l_attr,
               Timespec(LittleEndian(SubSeq(payload, 1, 8)),
                        LittleEndian(SubSeq(payload, 9, 12))),
               h.attr, h.l_attr)

\* the body of a getter after the attribute check
ValueOf(get, h, index) ==
    IF ~h.ok THEN h
    ELSE CASE get = "raw" -> RawOf(h, TlvPayload(index, h.l_attr), index)
           [] get = "string" ->
                StringOf(RawOf(h, TlvPayload(index, h.l_attr), index))
           [] get = "u64" -> U64Of(h, TlvPayload(index, h.l_attr), index)
           [] get = "uuid" -> UuidOf(h, TlvPayload(index, h.l_attr), index)
           [] get = "timespec" ->
                TimespecOf(h, TlvPayload(index, h.l_attr), index)

tlv_get(attr_type, index) == ValueOf("raw", TlvHead(attr_type, index), index)

tlv_get_string(attr_type, index) ==
    ValueOf("string", TlvHead(attr_type, index), index)

tlv_get_u64(attr_type, index) ==
    ValueOf("u64", TlvHead(attr_type, index), index)

tlv_get_uuid(attr_type, index) ==
    ValueOf("uuid", TlvHead(attr_type, index), index)

tlv_get_timespec(attr_type, index) ==
    ValueOf("timespec", TlvHead(attr_type, index), index)

\* the getter a schema field names
TlvGet(get, attr_type, index) ==
    CASE get = "raw" -> tlv_get(attr_type, index)
      [] get = "string" -> tlv_get_string(attr_type, index)
      [] get = "u64" -> tlv_get_u64(attr_type, index)
      [] get = "uuid" -> tlv_get_uuid(attr_type, index)
      [] get = "timespec" -> tlv_get_timespec(attr_type, index)

-----------------------------------------------------------------------------
(* parse(): the attributes each branch of the if/elif chain reads.  A field *)
(* is [get, attr, var, at]: the getter, the attr_type it is called with,    *)
(* the local the value is bound to, and the index it is called with         *)
(* (offset, the start of the command body, or offset2, where the previous   *)
(* getter ended).                                                           *)

F(get, attr, var, at) == [get |-> get, attr |-> attr, var |-> var, at |-> at]

PathField == F("string", "BTRFS_SEND_A_PATH", "path", "offset")

\* faulty variant: otime is read whatever the version
ReadsOtime_Always == TRUE

\* if self.version >= 2
ReadsOtime == version >= 2

Fields(cmd_short) ==
    CASE cmd_short = "rename" ->
           <<PathField,
             F("string", "BTRFS_SEND_A_PATH_TO", "path_to", "offset2")>>
      [] cmd_short = "symlink" ->
           <<PathField,
             F("u64", "BTRFS_SEND_A_INO", "ino", "offset2"),
             F("string", "BTRFS_SEND_A_PATH_LINK", "path_link", "offset2")>>
      [] cmd_short = "link" ->
           <<PathField,
             F("string", "BTRFS_SEND_A_PATH_LINK", "path_link", "offset2")>>
      [] cmd_short = "utimes" ->
           <<PathField,
             F("timespec", "BTRFS_SEND_A_ATIME", "atime", "offset2"),
             F("timespec", "BTRFS_SEND_A_MTIME", "mtime", "offset2"),
             F("timespec", "BTRFS_SEND_A_CTIME", "ctime", "offset2")>>
           \o (IF ReadsOtime
               THEN <<F("timespec", "BTRFS_SEND_A_OTIME", "otime", "offset2")>>
               ELSE <<>>)
      [] cmd_short \in {"mkfile", "mkdir", "unlink", "rmdir"} ->
           <<PathField>>
      [] cmd_short \in {"mkfifo", "mksock"} ->
           <<PathField,
             F("u64", "BTRFS_SEND_A_INO", "ino", "offset2"),
             F("u64", "BTRFS_SEND_A_RDEV", "rdev", "offset2"),
             F("u64", "BTRFS_SEND_A_MODE", "mode", "offset2")>>
      [] cmd_short = "truncate" ->
           <<PathField,
             F("u64", "BTRFS_SEND_A_SIZE", "size", "offset2")>>
      [] cmd_short = "snapshot" ->
           <<PathField,
             F("uuid", "BTRFS_SEND_A_UUID", "uuid", "offset2"),
             F("u64", "BTRFS_SEND_A_CTRANSID", "ctransid", "offset2"),
             F("uuid", "BTRFS_SEND_A_CLONE_UUID", "clone_uuid", "offset2"),
             F("u64", "BTRFS_SEND_A_CLONE_CTRANSID", "clone_ctransid",
               "offset2")>>
      [] cmd_short = "subvol" ->
           <<PathField,
             F("uuid", "BTRFS_SEND_A_UUID", "uuid", "offset2"),
             F("u64", "BTRFS_SEND_A_CTRANSID", "ctransid", "offset2")>>
      [] cmd_short = "mknod" ->
           <<PathField,
             F("u64", "BTRFS_SEND_A_MODE", "mode", "offset2"),
             F("u64", "BTRFS_SEND_A_RDEV", "rdev", "offset2")>>
      [] cmd_short = "set_xattr" ->
           <<PathField,
             F("string", "BTRFS_SEND_A_XATTR_NAME", "xattr_name", "offset2"),
             F("raw", "BTRFS_SEND_A_XATTR_DATA", "xattr_data", "offset2")>>
      [] cmd_short = "remove_xattr" ->
           <<PathField,
             F("string", "BTRFS_SEND_A_XATTR_NAME", "xattr_name", "offset2")>>
      [] cmd_short = "write" ->
           <<PathField,
             F("u64", "BTRFS_SEND_A_FILE_OFFSET", "file_offset", "offset2"),
             F("raw", "BTRFS_SEND_A_DATA", "data", "offset2")>>
      [] cmd_short = "clone" ->
           <<PathField,
             F("u64", "BTRFS_SEND_A_FILE_OFFSET", "file_offset", "offset2"),
             F("u64", "BTRFS_SEND_A_CLONE_LEN", "clone_len", "offset2"),
             F("uuid", "BTRFS_SEND_A_CLONE_UUID", "clone_uuid", "offset2"),
             F("u64", "BTRFS_SEND_A_CLONE_TRANSID", "clone_transid",
               "offset2"),
             F("string", "BTRFS_SEND_A_CLONE_PATH", "clone_path", "offset"),
             F("u64", "BTRFS_SEND_A_CLONE_OFFSET", "clone_offset",
               "offset2")>>
      [] cmd_short = "chmod" ->
           <<PathField,
             F("u64", "BTRFS_SEND_A_MODE", "mode", "offset2")>>
      [] cmd_short = "chown" ->
           <<PathField,
             F("u64", "BTRFS_SEND_A_UID", "uid", "offset2"),
             F("u64", "BTRFS_SEND_A_GID", "gid", "offset2")>>
      [] cmd_short = "update_extent" ->
           <<PathField,
             F("u64", "BTRFS_SEND_A_FILE_OFFSET", "file_offset", "offset2"),
             F("u64", "BTRFS_SEND_A_SIZE", "size", "offset2")>>
      [] OTHER -> <<>>

\* The keys of the yielded dict other than "command" and "cmd_ref", each
\* with the local it is set from.
Yielded(cmd_short) ==
    CASE cmd_short = "rename" -> <<<<"path", "path">>, <<"path_to", "path_to">>>>
      [] cmd_short = "symlink" ->
           <<<<"path", "path">>, <<"path_link", "path_link">>,
             <<"inode", "ino">>>>
      [] cmd_short = "link" ->
           <<<<"path", "path">>, <<"path_link", "path_link">>>>
      [] cmd_short = "utimes" ->
           <<<<"path", "path">>, <<"atime", "atime">>, <<"mtime", "mtime">>,
             <<"ctime", "ctime">>, <<"otime", "otime">>>>
      [] cmd_short \in {"mkfile", "mkdir", "unlink", "rmdir"} ->
           <<<<"path", "path">>>>
      [] cmd_short \in {"mkfifo", "mksock"} ->
           <<<<"ino", "ino">>, <<"path", "path">>, <<"rdev", "rdev">>>>
      [] cmd_short = "truncate" ->
           <<<<"path", "path">>, <<"to_size", "size">>>>
      [] cmd_short = "snapshot" ->
           <<<<"path", "path">>, <<"uuid", "uuid">>,
             <<"ctransid", "ctransid">>, <<"clone_uuid", "clone_uuid">>,
             <<"clone_ctransid", "clone_ctransid">>>>
      [] cmd_short = "subvol" ->
           <<<<"path", "path">>, <<"uuid", "uuid">>,
             <<"ctrans_id", "ctransid">>>>
      [] cmd_short = "mknod" ->
           <<<<"path", "path">>, <<"mode", "mode">>, <<"rdev", "rdev">>>>
      [] cmd_short = "set_xattr" ->
           <<<<"path", "path">>, <<"xattr_name", "xattr_name">>,
             <<"xattr_data", "xattr_data">>>>
      [] cmd_short = "remove_xattr" ->
           <<<<"path", "path">>, <<"xattr_name", "xattr_name">>>>
      [] cmd_short = "write" ->
           <<<<"path", "path">>, <<"file_offset", "file_offset">>,
             <<"data", "data">>>>
      [] cmd_short = "clone" ->
           <<<<"path", "path">>, <<"file_offset", "file_offset">>,
             <<"clone_len", "clone_len">>, <<"clone_uuid", "clone_uuid">>,
             <<"clone_transid", "clone_transid">>,
             <<"clone_path", "clone_path">>,
             <<"clone_offset", "clone_offset">>>>
      [] cmd_short = "chmod" -> <<<<"path", "path">>, <<"mode", "mode">>>>
      [] cmd_short = "chown" ->
           <<<<"path", "path">>, <<"user_id", "uid">>, <<"group_id", "gid">>>>
      [] cmd_short = "update_extent" ->
           <<<<"path", "path">>, <<"file_offset", "file_offset">>,
             <<"size", "size">>>>
      [] OTHER -> <<>>

-----------------------------------------------------------------------------
(* parse(): one iteration of the while loop *)

NoLocals == [v \in {} |-> 0]

\* otime = 0.0 in the else branch of the version test, the only local of a
\* branch that is not set by a getter
Locals0(cmd_short) ==
    IF cmd_short = "utimes" /\ ~ReadsOtime
    THEN ("otime" :> Timespec(0, 0))
    ELSE NoLocals

\* the record tlv_calls keeps of one getter call
Call(f, index, r) ==
    [attr_type |-> f.attr, index |-> index, attr |-> r.attr,
     l_attr |-> r.l_attr, ok |-> r.ok]

\* The getter calls of one branch, in order; the first that raises ends it.
\* ReadFields picks the index of the next call, GotField continues with
\* what the getter returned.
RECURSIVE ReadFields(_, _, _, _, _)
RECURSIVE GotField(_, _, _, _, _, _)
ReadField(fields, offset0, index, locals, calls) ==
    GotField(fields, offset0, index, locals, calls,
             TlvGet(Head(fields).get, Head(fields).attr, index))

ReadFields(fields, offset0, offset2, locals, calls) ==
    IF fields = <<>>
    THEN [ok |-> TRUE, locals |-> locals, calls |-> calls, err |-> NoExc]
    ELSE ReadField(fields, offset0,
                   IF Head(fields).at = "offset" THEN offset0 ELSE offset2,
                   locals, calls)

GotField(fields, offset0, index, locals, calls, r) ==
    IF ~r.ok
    THEN [ok |-> FALSE, locals |-> locals,
          calls |-> Append(calls, Call(Head(fields), index, r)),
          err |-> r.err]
    ELSE ReadFields(Tail(fields), offset0, r.index,
                    locals @@ (Head(fields).var :> r.val),
                    Append(calls, Call(Head(fields), index, r)))

\* yield {"command": cmd_short, ..., "cmd_ref": cmd_ref}
MakeOp(cmd_short, locals, ref) ==
    LET y == Yielded(cmd_short)
        keys == {y[i][1] : i \in 1..Len(y)}
        var(k) == y[CHOOSE i \in 1..Len(y) : y[i][1] = k][2]
    IN [k \in keys \cup {"command", "cmd_ref"} |->
          IF k = "command" THEN cmd_short
          ELSE IF k = "cmd_ref" THEN ref
          ELSE locals[var(k)]]

\* faulty variant: the counter is not advanced
NextCmdRef_Stuck(ref) == ref

\* cmd_ref += 1
NextCmdRef(ref) == ref + 1

\* faulty variant: the synthetic operation does not take a cmd_ref of its own
RenameOps_SharedRef(locals, ref) ==
    IF bogus
    THEN << [command |-> "renamed_from", path |-> locals["path"],
             path_to |-> locals["path_to"], bogus |-> TRUE, cmd_ref |-> ref],
            MakeOp("rename", locals, ref) >>
    ELSE << MakeOp("rename", locals, ref) >>

\* The rename branch: with bogus, the renamed_from dict, cmd_ref += 1, then
\* the rename dict.
RenameOps(locals, ref) ==
    IF bogus
    THEN << [command |-> "renamed_from", path |-> locals["path"],
             path_to |-> locals["path_to"], bogus |-> TRUE, cmd_ref |-> ref],
            MakeOp("rename", locals, NextCmdRef(ref)) >>
    ELSE << MakeOp("rename", locals, ref) >>

\* faulty variant: stream_length reports the read position, not the buffer size
EndOp_StreamLengthIsOffset(cmd_short, off) ==
    [command |-> cmd_short, headers_length |-> off, stream_length |-> off]

\* yield {"command": cmd_short, "headers_length": offset,
\*        "stream_length": len(self.stream)}
EndOp(cmd_short, off) ==
    [command |-> cmd_short, headers_length |-> off,
     stream_length |-> Len(stream)]

\* yield {"command": cmd_short}
UnspecOp(cmd_short) == [command |-> cmd_short]

\* What one iteration does: kind is "yield" (the loop goes on), "end" (break)
\* or "raise"; ops are the dicts yielded, in order; offset and cmd_ref are
\* the locals when the iteration ends.
Iter(kind, ops, e, calls, off, ref) ==
    [kind |-> kind, ops |-> ops, err |-> e, calls |-> calls, offset |-> off,
     cmd_ref |-> ref]

\* faulty variant: a command without a branch is skipped like unspec
UnexpectedCommand_Skipped(command, off, l_cmd, ref) ==
    Iter("yield", <<>>, NoExc, <<>>, off + l_cmd, ref + 1)

\* the else branch: raise ValueError(f'Unexpected command "{command}"')
UnexpectedCommand(command, off, l_cmd, ref) ==
    Iter("raise", <<>>,
         Exc("ValueError", "Unexpected command", command, -1), <<>>, off, ref)

\* SendCmd(cmd) for a cmd that is no member: ValueError, which the
\* except IndexError clause does not catch
NotASendCmd(cmd, off, ref) ==
    Iter("raise", <<>>, Exc("ValueError", "is not a valid SendCmd", "", cmd),
         <<>>, off, ref)

\* what a branch yields once its attributes are read
Ops(cmd_short, locals, ref) ==
    IF cmd_short = "rename" THEN RenameOps(locals, ref)
    ELSE <<MakeOp(cmd_short, locals, ref)>>

\* faulty variant: the position advances by the bytes the getters consumed,
\* not by the declared body length
Yield_AdvancesByConsumed(ops, calls, body, l_cmd, ref) ==
    Iter("yield", ops, NoExc, calls,
         IF calls = <<>> THEN body
         ELSE calls[Len(calls)].index + l_tlv + calls[Len(calls)].l_attr,
         IF "cmd_ref" \in DOMAIN ops[Len(ops)]
         THEN NextCmdRef(ops[Len(ops)]["cmd_ref"])
         ELSE NextCmdRef(ref))

\* faulty variant: the position advances by the body length alone, the
\* header is not counted
Yield_HeaderNotCounted(ops, calls, body, l_cmd, ref) ==
    Iter("yield", ops, NoExc, calls, body - l_head + l_cmd,
         IF "cmd_ref" \in DOMAIN ops[Len(ops)]
         THEN NextCmdRef(ops[Len(ops)]["cmd_ref"])
         ELSE NextCmdRef(ref))

\* faulty variant: an operation yielded without a cmd_ref does not take one
Yield_UnspecTakesNoRef(ops, calls, body, l_cmd, ref) ==
    Iter("yield", ops, NoExc, calls, body + l_cmd,
         IF "cmd_ref" \in DOMAIN ops[Len(ops)]
         THEN NextCmdRef(ops[Len(ops)]["cmd_ref"])
         ELSE ref)

\* the end of an iteration that yielded ops: offset += l_cmd, cmd_ref += 1
Yield(ops, calls, body, l_cmd, ref) ==
    Iter("yield", ops, NoExc, calls, body + l_cmd,
         IF "cmd_ref" \in DOMAIN ops[Len(ops)]
         THEN NextCmdRef(ops[Len(ops)]["cmd_ref"])
         ELSE NextCmdRef(ref))

\* the branches that read attributes and yield; r is what ReadFields gave
Branch(cmd_short, body, l_cmd, ref, r) ==
    IF ~r.ok THEN Iter("raise", <<>>, r.err, r.calls, body, ref)
    ELSE Yield(Ops(cmd_short, r.locals, ref), r.calls, body, l_cmd, ref)

AttrBranch(cmd_short, body, l_cmd, ref) ==
    Branch(cmd_short, body, l_cmd, ref,
           ReadFields(Fields(cmd_short), body, body, Locals0(cmd_short),
                      <<>>))

\* the if/elif chain, for a command header that was read
Chain(cmd, l_cmd, body, ref) ==
    IF cmd >= Len(SendCmd) THEN NotASendCmd(cmd, body - l_head, ref)
    ELSE IF Fields(CmdShort[cmd + 1]) # <<>>
    THEN AttrBranch(CmdShort[cmd + 1], body, l_cmd, ref)
    ELSE IF cmd = SendCmdValue("BTRFS_SEND_C_END")
    THEN Iter("end", <<EndOp(CmdShort[cmd + 1], body)>>, NoExc, <<>>, body,
              ref)
    ELSE IF cmd = SendCmdValue("BTRFS_SEND_C_UNSPEC")
    THEN Yield(<<UnspecOp(CmdShort[cmd + 1])>>, <<>>, body, l_cmd, ref)
    ELSE UnexpectedCommand(SendCmd[cmd + 1], body, l_cmd, ref)

\* l_cmd, cmd, _ = unpack("<IHI", head)
DispatchOf(head, off, ref) ==
    IF Len(head) # l_head
    THEN Iter("raise", <<>>, StructError(l_head), <<>>, off, ref)
    ELSE Chain(LittleEndian(SubSeq(head, 5, 6)),
               LittleEndian(SubSeq(head, 1, 4)), off + l_head, ref)

Dispatch(off, ref) == DispatchOf(PySlice(stream, off, off + l_head), off, ref)

-----------------------------------------------------------------------------
(* decode(): the body of the for loop *)

HasPath(ps, path) == \E i \in 1..Len(ps) : ps[i].path = path

\* faulty variant: a new key is put first instead of last
PathsAppend_NewKeyFirst(ps, path, ref) ==
    IF HasPath(ps, path)
    THEN [i \in 1..Len(ps) |->
            IF ps[i].path = path
            THEN [ps[i] EXCEPT !.refs = Append(@, ref)]
            ELSE ps[i]]
    ELSE <<[path |-> path, refs |-> <<ref>>]>> \o ps

\* paths.setdefault(path, []).append(cmd_ref)
PathsAppend(ps, path, ref) ==
    IF HasPath(ps, path)
    THEN [i \in 1..Len(ps) |->
            IF ps[i].path = path
            THEN [ps[i] EXCEPT !.refs = Append(@, ref)]
            ELSE ps[i]]
    ELSE Append(ps, [path |-> path, refs |-> <<ref>>])

\* faulty variant: a rename is filed under its source path
AffectedPath_AlwaysPath(cmd) == cmd["path"]

\* path = cmd["path_to"] if cmd_short == "rename" else cmd["path"]
AffectedPath(cmd) ==
    IF cmd["command"] = "rename" THEN cmd["path_to"] ELSE cmd["path"]

\* if cmd_short in ["end", "unspec"]: continue
Skipped(cmd) == cmd["command"] \in {"end", "unspec"}

DecodeOne(ps, cmd) ==
    IF Skipped(cmd) THEN ps
    ELSE PathsAppend(ps, AffectedPath(cmd), cmd["cmd_ref"])

RECURSIVE DecodeAll(_, _)
DecodeAll(ps, ops) ==
    IF ops = <<>> THEN ps
    ELSE DecodeAll(DecodeOne(ps, Head(ops)), Tail(ops))

-----------------------------------------------------------------------------
(* The input buffers.  Any sequence of bytes is an input of the program;    *)
(* the ones enumerated are built from a header, up to MaxCmds commands of   *)
(* CoreCmds, at most one command of Probes and an optional end command,     *)
(* plus a few buffers that header validation rejects.  Integers are kept    *)
(* below 2^31.                                                              *)

MaxCmds == 2

\* n as k little-endian bytes
RECURSIVE ToLE(_, _)
ToLE(n, k) == IF k = 0 THEN <<>> ELSE <<n % 256>> \o ToLE(n \div 256, k - 1)

\* an attribute whose header declares l_attr bytes
TlvL(attr, l_attr, payload) == ToLE(attr, 2) \o ToLE(l_attr, 2) \o payload
Tlv(name, payload) == TlvL(SendAttrValue(name), Len(payload), payload)

\* a command whose header declares l_cmd bytes of body; the CRC is not used
CmdL(l_cmd, cmd, body) == ToLE(l_cmd, 4) \o ToLE(cmd, 2) \o ToLE(0, 4) \o body
Cmd(name, body) == CmdL(Len(body), SendCmdValue(name), body)

Header(magic, v) == magic \o <<0>> \o ToLE(v, 4)

PathA == <<97>>
PathB == <<98>>
PathTmp == <<111, 50>>
\* "é" in UTF-8
PathE == <<195, 169>>
Uuid == [i \in 1..16 |-> i - 1]
U64(n) == ToLE(n, 8)
Time(sec, nanos) == ToLE(sec, 8) \o ToLE(nanos, 4)

TPath(p) == Tlv("BTRFS_SEND_A_PATH", p)

End == Cmd("BTRFS_SEND_C_END", <<>>)

CoreCmds ==
    { Cmd("BTRFS_SEND_C_MKDIR", TPath(PathB)),
      Cmd("BTRFS_SEND_C_MKFILE", TPath(PathA)),
      Cmd("BTRFS_SEND_C_RENAME",
          TPath(PathB) \o Tlv("BTRFS_SEND_A_PATH_TO", PathA)),
      Cmd("BTRFS_SEND_C_UNSPEC", <<>>),
      End }

UtimesV1 ==
    TPath(PathA) \o Tlv("BTRFS_SEND_A_ATIME", Time(3, 5))
    \o Tlv("BTRFS_SEND_A_MTIME", Time(2, 0))
    \o Tlv("BTRFS_SEND_A_CTIME", Time(1, 7))

\* a clone command with the attributes of the catalog, back-to-back
CloneCmd ==
    Cmd("BTRFS_SEND_C_CLONE",
        TPath(PathA) \o Tlv("BTRFS_SEND_A_FILE_OFFSET", U64(0))
        \o Tlv("BTRFS_SEND_A_CLONE_LEN", U64(4096))
        \o Tlv("BTRFS_SEND_A_CLONE_UUID", Uuid)
        \o Tlv("BTRFS_SEND_A_CLONE_CTRANSID", U64(6))
        \o Tlv("BTRFS_SEND_A_CLONE_PATH", PathB)
        \o Tlv("BTRFS_SEND_A_CLONE_OFFSET", U64(0)))

WellFormedProbes ==
    { Cmd("BTRFS_SEND_C_SYMLINK",
          TPath(PathA) \o Tlv("BTRFS_SEND_A_INO", U64(258))
          \o Tlv("BTRFS_SEND_A_PATH_LINK", PathB)),
      Cmd("BTRFS_SEND_C_LINK",
          TPath(PathB) \o Tlv("BTRFS_SEND_A_PATH_LINK", PathA)),
      Cmd("BTRFS_SEND_C_UTIMES", UtimesV1),
      Cmd("BTRFS_SEND_C_UTIMES",
          UtimesV1 \o Tlv("BTRFS_SEND_A_OTIME", Time(9, 1))),
      Cmd("BTRFS_SEND_C_UNLINK", TPath(PathA)),
      Cmd("BTRFS_SEND_C_RMDIR", TPath(PathB)),
      Cmd("BTRFS_SEND_C_MKDIR", TPath(PathE)),
      Cmd("BTRFS_SEND_C_MKDIR", TPath(<<>>)),
      Cmd("BTRFS_SEND_C_RENAME",
          TPath(PathTmp) \o Tlv("BTRFS_SEND_A_PATH_TO", PathB)),
      Cmd("BTRFS_SEND_C_MKFIFO",
          TPath(PathA) \o Tlv("BTRFS_SEND_A_INO", U64(259))
          \o Tlv("BTRFS_SEND_A_RDEV", U64(0))
          \o Tlv("BTRFS_SEND_A_MODE", U64(4516))),
      Cmd("BTRFS_SEND_C_MKSOCK",
          TPath(PathB) \o Tlv("BTRFS_SEND_A_INO", U64(260))
          \o Tlv("BTRFS_SEND_A_RDEV", U64(0))
          \o Tlv("BTRFS_SEND_A_MODE", U64(49572))),
      Cmd("BTRFS_SEND_C_TRUNCATE",
          TPath(PathA) \o Tlv("BTRFS_SEND_A_SIZE", U64(4096))),
      Cmd("BTRFS_SEND_C_SNAPSHOT",
          TPath(PathB) \o Tlv("BTRFS_SEND_A_UUID", Uuid)
          \o Tlv("BTRFS_SEND_A_CTRANSID", U64(7))
          \o Tlv("BTRFS_SEND_A_CLONE_UUID", Uuid)
          \o Tlv("BTRFS_SEND_A_CLONE_CTRANSID", U64(6))),
      Cmd("BTRFS_SEND_C_SUBVOL",
          TPath(PathB) \o Tlv("BTRFS_SEND_A_UUID", Uuid)
          \o Tlv("BTRFS_SEND_A_CTRANSID", U64(7))),
      Cmd("BTRFS_SEND_C_MKNOD",
          TPath(PathA) \o Tlv("BTRFS_SEND_A_MODE", U64(8630))
          \o Tlv("BTRFS_SEND_A_RDEV", U64(259))),
      Cmd("BTRFS_SEND_C_SET_XATTR",
          TPath(PathA) \o Tlv("BTRFS_SEND_A_XATTR_NAME", <<117>>)
          \o Tlv("BTRFS_SEND_A_XATTR_DATA", <<0, 255>>)),
      Cmd("BTRFS_SEND_C_REMOVE_XATTR",
          TPath(PathA) \o Tlv("BTRFS_SEND_A_XATTR_NAME", <<117>>)),
      Cmd("BTRFS_SEND_C_WRITE",
          TPath(PathA) \o Tlv("BTRFS_SEND_A_FILE_OFFSET", U64(0))
          \o Tlv("BTRFS_SEND_A_DATA", <<104, 105>>)),
      CloneCmd,
      Cmd("BTRFS_SEND_C_CHMOD",
          TPath(PathA) \o Tlv("BTRFS_SEND_A_MODE", U64(420))),
      Cmd("BTRFS_SEND_C_CHOWN",
          TPath(PathA) \o Tlv("BTRFS_SEND_A_UID", U64(1000))
          \o Tlv("BTRFS_SEND_A_GID", U64(100))),
      Cmd("BTRFS_SEND_C_UPDATE_EXTENT",
          TPath(PathA) \o Tlv("BTRFS_SEND_A_FILE_OFFSET", U64(0))
          \o Tlv("BTRFS_SEND_A_SIZE", U64(8192))),
      \* a body longer than the attributes read from it
      CmdL(Len(TPath(PathB)) + 3, SendCmdValue("BTRFS_SEND_C_MKDIR"),
           TPath(PathB) \o <<1, 2, 3>>) }

MalformedProbes ==
    { \* an attribute of the catalog that is not the expected one
      Cmd("BTRFS_SEND_C_MKDIR", Tlv("BTRFS_SEND_A_PATH_TO", PathA)),
      Cmd("BTRFS_SEND_C_CHMOD",
          TPath(PathA) \o Tlv("BTRFS_SEND_A_SIZE", U64(420))),
      \* an attribute id outside the catalog
      Cmd("BTRFS_SEND_C_MKDIR", TlvL(99, 1, PathA)),
      \* declared attribute lengths beyond what is there
      Cmd("BTRFS_SEND_C_MKDIR", TlvL(15, 9, PathA)),
      Cmd("BTRFS_SEND_C_MKDIR", TlvL(15, 40, PathA)),
      Cmd("BTRFS_SEND_C_CHMOD", TPath(PathA) \o TlvL(5, 100, U64(420))),
      CmdL(0, SendCmdValue("BTRFS_SEND_C_CHMOD"),
           TPath(<<21, 0>>) \o TlvL(5, 100, U64(420))),
      \* a u64 attribute of 4 bytes
      Cmd("BTRFS_SEND_C_CHMOD",
          TPath(PathA) \o Tlv("BTRFS_SEND_A_MODE", ToLE(420, 4))),
      \* a path that is not UTF-8
      Cmd("BTRFS_SEND_C_MKDIR", TPath(<<255>>)),
      \* commands of the catalog that parse() has no branch for
      Cmd("BTRFS_SEND_C_FALLOCATE", <<>>),
      Cmd("BTRFS_SEND_C_FILEATTR", TPath(PathA)),
      Cmd("BTRFS_SEND_C_ENCODED_WRITE", <<>>),
      Cmd("BTRFS_SEND_C_ENABLE_VERITY", <<>>),
      \* command codes outside the catalog
      CmdL(0, 27, <<>>),
      CmdL(0, 300, <<>>),
      \* a declared body length shorter than the body
      CmdL(0, SendCmdValue("BTRFS_SEND_C_MKDIR"), TPath(PathA)),
      \* a declared body length that leads past the end of the buffer
      CmdL(50, SendCmdValue("BTRFS_SEND_C_UNSPEC"), <<>>),
      \* a cut command header
      <<0, 0, 0, 0, 4>> }

Probes == WellFormedProbes \cup MalformedProbes

RECURSIVE Flatten(_)
Flatten(ss) == IF ss = <<>> THEN <<>> ELSE Head(ss) \o Flatten(Tail(ss))

CoreSeqs == UNION {[1..n -> CoreCmds] : n \in 0..MaxCmds}

BadMagic == [BTRFS_SEND_STREAM_MAGIC EXCEPT ![12] = 77]

Accepted ==
    { Header(BTRFS_SEND_STREAM_MAGIC, v) \o Flatten(cs) \o p \o t :
        v \in {1, 2}, cs \in CoreSeqs, p \in Probes \cup {<<>>},
        t \in {<<>>, End} }

Rejected ==
    { <<>>,
      SubSeq(BTRFS_SEND_STREAM_MAGIC, 1, 11),
      BTRFS_SEND_STREAM_MAGIC \o <<0, 1, 0, 0>>,
      Header(BadMagic, 1),
      Header(BadMagic, 1) \o Cmd("BTRFS_SEND_C_MKDIR", TPath(PathA)) \o End,
      Header(<<66>> \o Tail(BTRFS_SEND_STREAM_MAGIC), 2) \o End }

Streams == Accepted \cup Rejected

-----------------------------------------------------------------------------
(* main(), from the construction of the parser on *)

Init ==
    /\ stream \in Streams
    /\ bogus \in BOOLEAN
    /\ version = None
    /\ pc = "new"
    /\ offset = 0
    /\ cmd_ref = 0
    /\ commands = <<>>
    /\ paths = <<>>
    /\ ret = <<>>
    /\ err = NoExc
    /\ tlv_calls = <<>>

\* if len(self.stream) < 17
TooShort(s) == Len(s) < l_stream_head

\* faulty variant: the magic is not looked at
NotBtrfsStream_Unchecked(magic) == FALSE

\* if magic != BTRFS_SEND_STREAM_MAGIC
NotBtrfsStream(magic) == magic # BTRFS_SEND_STREAM_MAGIC

\* BtrfsStreamParser.__init__, on the 17 bytes it slices: a stream shorter
\* than 17 bytes is reported, then unpack("<12scI", ...) raises on it.
Constructs(head) ==
    /\ IF Len(head) # l_stream_head
       THEN /\ version' = None
            /\ err' = StructError(l_stream_head)
            /\ pc' = "raised"
       ELSE /\ version' = IF TooShort(stream)
                             \/ NotBtrfsStream(SubSeq(head, 1, 12))
                          THEN None
                          ELSE LittleEndian(SubSeq(head, 14, 17))
            /\ err' = err
            /\ pc' = "constructed"
    /\ UNCHANGED <<stream, bogus, offset, cmd_ref, commands, paths, ret,
                   tlv_calls>>

Construct == pc = "new" /\ Constructs(PySlice(stream, 0, l_stream_head))

\* if stream.version is None: exit(1)
Exit ==
    /\ pc = "constructed"
    /\ version = None
    /\ pc' = "exit"
    /\ UNCHANGED <<stream, bogus, version, offset, cmd_ref, commands, paths,
                   ret, err, tlv_calls>>

\* stream.decode(bogus=args.bogus) up to the first iteration of parse()
StartDecode ==
    /\ pc = "constructed"
    /\ version # None
    /\ pc' = "parse"
    /\ offset' = l_stream_head
    /\ cmd_ref' = 0
    /\ commands' = <<>>
    /\ paths' = <<>>
    /\ UNCHANGED <<stream, bogus, version, ret, err, tlv_calls>>

\* One iteration of parse() that yields and goes on, with the iterations
\* of the for loop of decode() on what it yields.
Yields(it) ==
    /\ it.kind = "yield"
    /\ commands' = commands \o it.ops
    /\ paths' = DecodeAll(paths, it.ops)
    /\ offset' = it.offset
    /\ cmd_ref' = it.cmd_ref
    /\ tlv_calls' = tlv_calls \o it.calls
    /\ UNCHANGED <<stream, bogus, version, pc, ret, err>>

ParseYield == pc = "parse" /\ Yields(Dispatch(offset, cmd_ref))

\* The iteration that meets the end command: yield, break, and decode()
\* returns commands, paths.
Ends(it) ==
    /\ it.kind = "end"
    /\ commands' = commands \o it.ops
    /\ paths' = DecodeAll(paths, it.ops)
    /\ offset' = it.offset
    /\ cmd_ref' = it.cmd_ref
    /\ ret' = <<commands', paths'>>
    /\ pc' = "returned"
    /\ UNCHANGED <<stream, bogus, version, err, tlv_calls>>

ParseEnd == pc = "parse" /\ Ends(Dispatch(offset, cmd_ref))

\* An iteration that raises: the exception leaves parse(), decode() and
\* main(); nothing is returned.
Raises(it) ==
    /\ it.kind = "raise"
    /\ err' = it.err
    /\ offset' = it.offset
    /\ tlv_calls' = tlv_calls \o it.calls
    /\ pc' = "raised"
    /\ UNCHANGED <<stream, bogus, version, cmd_ref, commands, paths, ret>>

ParseRaise == pc = "parse" /\ Raises(Dispatch(offset, cmd_ref))

Next ==
    \/ Construct
    \/ Exit
    \/ StartDecode
    \/ ParseYield
    \/ ParseEnd
    \/ ParseRaise

Spec == Init /\ [][Next]_vars

\* main() has a step to take: it has not returned, raised or exited.
\* Every step changes pc, offset or commands, and an iteration of parse()
\* yields, ends or raises, so this is ENABLED <<Next>>_vars.
CanStep == pc \in {"new", "constructed", "parse"}

\* main() runs on its own thread until it returns, raises or exits: weak
\* fairness of Next, written out with CanStep for ENABLED <<Next>>_vars
FairSpec == Spec /\ ([]<>(~CanStep) \/ []<><<Next>>_vars)

-----------------------------------------------------------------------------
(* What the properties below speak of *)

\* the Operation Log and the PathIndex decode() returned
Log == ret[1]
Index == ret[2]
Returned == pc = "returned"

HasRef(op) == "cmd_ref" \in DOMAIN op
NoPathOp(op) == op.command \in {"end", "unspec"}
\* the path an operation affects, as the specification defines it
DerivedPath(op) == IF op.command = "rename" THEN op.path_to ELSE op.path

IsIn(x, seq) == \E i \in 1..Len(seq) : seq[i] = x

\* the derived paths of a log, each once, in the order of first occurrence
RECURSIVE FirstSeen(_, _)
FirstSeen(log, acc) ==
    IF log = <<>> THEN acc
    ELSE IF NoPathOp(Head(log)) \/ IsIn(DerivedPath(Head(log)), acc)
    THEN FirstSeen(Tail(log), acc)
    ELSE FirstSeen(Tail(log), Append(acc, DerivedPath(Head(log))))

\* the cmd_refs of the operations of a log that affect path, in log order
RECURSIVE RefsUnder(_, _)
RefsUnder(log, path) ==
    IF log = <<>> THEN <<>>
    ELSE (IF ~NoPathOp(Head(log)) /\ DerivedPath(Head(log)) = path
          THEN <<Head(log).cmd_ref>> ELSE <<>>)
         \o RefsUnder(Tail(log), path)

-----------------------------------------------------------------------------
\* C1 (as stated): every operation of the returned log, unspec and end
\* included, carries a cmd_ref; the cmd_refs in log order start at 0 and
\* are strictly increasing.
C1_EveryOpCarriesCmdRef ==
    Returned =>
      /\ \A i \in 1..Len(Log) : HasRef(Log[i])
      /\ Log[1].cmd_ref = 0
      /\ \A i \in 2..Len(Log) : Log[i - 1].cmd_ref < Log[i].cmd_ref

\* C1 (amended): every operation of the returned log other than unspec and
\* end carries a cmd_ref, which is the 0-based position of the operation in
\* the log, so the cmd_refs in log order are strictly increasing; unspec
\* and end carry none.
C1_CmdRefIsLogPosition ==
    Returned =>
      /\ \A i \in 1..Len(Log) :
           IF NoPathOp(Log[i]) THEN ~HasRef(Log[i])
           ELSE HasRef(Log[i]) /\ Log[i].cmd_ref = i - 1
      /\ \A i, j \in 1..Len(Log) :
           (i < j /\ HasRef(Log[i]) /\ HasRef(Log[j]))
             => Log[i].cmd_ref < Log[j].cmd_ref

\* a returned log with an unspec, then a synthetic renamed_from, a rename
\* and the end
C1_Witness ==
    /\ Returned
    /\ bogus
    /\ Len(Log) >= 4
    /\ Log[1].command = "unspec"
    /\ \E i \in 2..Len(Log) : Log[i].command = "renamed_from"

-----------------------------------------------------------------------------
-----------------------------------------------------------------------------
\* C3: every key of the returned PathIndex has a non-empty list holding the
\* cmd_ref of an operation whose derived path is that key, and the keys are
\* in the order in which the derived paths first occur in the log.
C3_KeysInFirstOccurrenceOrder ==
    Returned =>
      /\ \A k \in 1..Len(Index) :
           /\ Len(Index[k].refs) >= 1
           /\ \E n \in 1..Len(Index[k].refs) : \E i \in 1..Len(Log) :
                /\ ~NoPathOp(Log[i])
                /\ Log[i].cmd_ref = Index[k].refs[n]
                /\ DerivedPath(Log[i]) = Index[k].path
      /\ [k \in 1..Len(Index) |-> Index[k].path] = FirstSeen(Log, <<>>)

\* three keys, the first two out of lexical order ("b" before "a")
C3_Witness ==
    /\ Returned
    /\ Len(Index) >= 3
    /\ Index[1].path = PathB
    /\ Index[2].path = PathA
    /\ Len(Index[2].refs) >= 2

-----------------------------------------------------------------------------
-----------------------------------------------------------------------------
IsOkCall(c, attr_type) == c.ok /\ c.attr_type = attr_type

\* the number of rename commands decoded: only the rename branch reads a
\* PATH_TO attribute
RECURSIVE RenamesRead(_)
RenamesRead(calls) ==
    IF calls = <<>> THEN 0
    ELSE (IF IsOkCall(Head(calls), "BTRFS_SEND_A_PATH_TO") THEN 1 ELSE 0)
         + RenamesRead(Tail(calls))

RECURSIVE OpsNamed(_, _)
OpsNamed(log, name) ==
    IF log = <<>> THEN 0
    ELSE (IF Head(log).command = name THEN 1 ELSE 0)
         + OpsNamed(Tail(log), name)

\* C5: every rename command decoded gives one rename operation; with
\* bogus-tracking it is immediately preceded by a renamed_from with the
\* same path and path_to, bogus = TRUE and the cmd_ref before its own;
\* without, the log holds no renamed_from.  A stream whose only command
\* before end is a rename gives renamed_from(0), rename(1), end with
\* bogus-tracking and rename(0), end without.
C5_RenamedFromBeforeRename ==
    /\ OpsNamed(commands, "rename") = RenamesRead(tlv_calls)
    /\ OpsNamed(commands, "renamed_from") =
         (IF bogus THEN RenamesRead(tlv_calls) ELSE 0)
    /\ bogus =>
         \A i \in 1..Len(commands) :
           commands[i].command = "rename" =>
             /\ i > 1
             /\ commands[i - 1].command = "renamed_from"
             /\ commands[i - 1].path = commands[i].path
             /\ commands[i - 1].path_to = commands[i].path_to
             /\ commands[i - 1].bogus = TRUE
             /\ commands[i].cmd_ref = commands[i - 1].cmd_ref + 1
    /\ (Returned /\ Len(tlv_calls) = 2 /\ RenamesRead(tlv_calls) = 1
        /\ OpsNamed(Log, "unspec") = 0) =>
         /\ [i \in 1..Len(Log) |-> Log[i].command] =
              (IF bogus THEN <<"renamed_from", "rename", "end">>
               ELSE <<"rename", "end">>)
         /\ Log[1].cmd_ref = 0
         /\ bogus => Log[2].cmd_ref = 1

\* with bogus-tracking, a rename that is not the first command, returned
C5_Witness ==
    /\ Returned
    /\ bogus
    /\ \E i \in 3..Len(Log) :
         /\ Log[i].command = "rename"
         /\ Log[i - 1].command = "renamed_from"
         /\ Log[i].cmd_ref = i - 1

-----------------------------------------------------------------------------
\* C6: a buffer shorter than 17 bytes, or whose first 12 bytes are not
\* "btrfs-stream", is rejected: no version, and no command of it is ever
\* decoded; any other buffer gets the little-endian value of its bytes 13
\* to 16 as version and its first command header is read at position 17.
C6_HeaderValidation ==
    IF Len(stream) < 17 \/ SubSeq(stream, 1, 12) # BTRFS_SEND_STREAM_MAGIC
    THEN /\ pc \in {"new", "raised", "constructed", "exit"}
         /\ version = None
         /\ commands = <<>> /\ paths = <<>> /\ tlv_calls = <<>> /\ ret = <<>>
         /\ pc = "raised" => Len(stream) < 17
    ELSE /\ pc # "exit"
         /\ pc # "new" =>
              version = stream[14] + 256 * stream[15] + 65536 * stream[16]
                        + 16777216 * stream[17]
         /\ (pc = "parse" /\ cmd_ref = 0 /\ commands = <<>>) => offset = 17

\* a buffer of more than 17 bytes with a wrong magic was turned away
C6_Witness ==
    /\ pc = "exit"
    /\ Len(stream) > 17
    /\ SubSeq(stream, 1, 11) = SubSeq(BTRFS_SEND_STREAM_MAGIC, 1, 11)

-----------------------------------------------------------------------------
\* a getter call whose attribute header declares more bytes than the
\* buffer holds after it
Overrun(c) == c.l_attr >= 0 /\ c.index + l_tlv + c.l_attr > Len(stream)

\* C7 (as stated): decoding is all-or-nothing: when a field decode fails,
\* and in particular when an attribute declares more bytes than remain in
\* the buffer, which is a failure, decode() returns nothing.
C7_AllOrNothing ==
    /\ pc = "raised" => ret = <<>>
    /\ \A i \in 1..Len(tlv_calls) :
         Overrun(tlv_calls[i]) => ret = <<>>

-----------------------------------------------------------------------------
\* the command header the dispatcher is about to read, if it is all there
HeaderThere == pc = "parse" /\ offset + l_head <= Len(stream)
NextCmd == stream[offset + 5] + 256 * stream[offset + 6]

\* C8: when the header the dispatcher reads has a command code outside the
\* catalog (above 26) or one of 23 to 26, the step raises a ValueError
\* naming the command; no operation is added for it, nothing is returned,
\* and nothing runs after the raise.
C8_UnknownCommandIsFatal ==
    [][ /\ (HeaderThere /\ NextCmd >= 23) =>
             /\ pc' = "raised"
             /\ err'.type = "ValueError"
             /\ IF NextCmd <= 26
                THEN err'.text = "Unexpected command"
                     /\ err'.name = SendCmd[NextCmd + 1]
                ELSE err'.num = NextCmd
             /\ commands' = commands
             /\ paths' = paths
             /\ ret' = <<>>
        /\ pc = "raised" => UNCHANGED vars ]_vars

\* an unsupported command met after two decoded ones, with an end command
\* behind it that is never read
C8_Witness ==
    /\ pc = "raised"
    /\ err.text = "Unexpected command"
    /\ Len(commands) >= 2
    /\ offset + l_head <= Len(stream)

-----------------------------------------------------------------------------
\* the attribute names an exception reports
Reported(e) == {e.name} \ {""}
Differs(c) ==
    c.attr >= 0 /\ (c.attr >= Len(SendAttr) \/ SendAttr[c.attr + 1] # c.attr_type)

\* C9 (as stated): a getter call that reads an attribute other than the
\* expected one fails with an error reporting the actual and the expected
\* attribute.
C9_ReportsActualAndExpected ==
    \A i \in 1..Len(tlv_calls) :
      (Differs(tlv_calls[i]) /\ tlv_calls[i].attr < Len(SendAttr)) =>
        /\ ~tlv_calls[i].ok
        /\ pc = "raised"
        /\ {SendAttr[tlv_calls[i].attr + 1], tlv_calls[i].attr_type}
             \subseteq Reported(err)

\* C9 (amended): every getter call compares the attribute it read with
\* the expected one: a call that returned read the expected attribute, and
\* a call that read another one raised a ValueError, the last thing
\* decode() did, which reports the attribute read (its name, or its number
\* when it is outside the catalog) and not the expected one.
C9_ReportsActualOnly ==
    \A i \in 1..Len(tlv_calls) :
      /\ tlv_calls[i].ok => ~Differs(tlv_calls[i])
      /\ Differs(tlv_calls[i]) =>
           /\ ~tlv_calls[i].ok
           /\ i = Len(tlv_calls)
           /\ pc = "raised"
           /\ ret = <<>>
           /\ err.type = "ValueError"
           /\ IF tlv_calls[i].attr < Len(SendAttr)
              THEN /\ err.text = "Unexpected attribute"
                   /\ Reported(err) = {SendAttr[tlv_calls[i].attr + 1]}
                   /\ tlv_calls[i].attr_type \notin Reported(err)
              ELSE err.num = tlv_calls[i].attr /\ Reported(err) = {}

\* the second attribute of a command is not the expected one
C9_Witness ==
    /\ pc = "raised"
    /\ err.text = "Unexpected attribute"
    /\ Len(tlv_calls) >= 2
    /\ tlv_calls[Len(tlv_calls)].index > tlv_calls[Len(tlv_calls) - 1].index
    /\ tlv_calls[Len(tlv_calls) - 1].ok
    /\ Len(commands) >= 1

-----------------------------------------------------------------------------
UtimesKeys == {"command", "path", "atime", "mtime", "ctime", "otime", "cmd_ref"}

\* C10: a utimes operation holds path, atime, mtime, ctime and otime, read
\* in that order, each where the one before ended; OTIME is read only in a
\* stream of version 2 or more, once per utimes, after CTIME; in a stream
\* of version 1 no OTIME is ever asked for and otime is 0.0.
C10_OtimeOnlyFromVersion2 ==
    /\ \A i \in 1..Len(commands) :
         commands[i].command = "utimes" =>
           /\ DOMAIN commands[i] = UtimesKeys
           /\ version < 2 => commands[i].otime = [sec |-> 0, nanos |-> 0]
    /\ \A i \in 1..Len(tlv_calls) :
         /\ tlv_calls[i].attr_type = "BTRFS_SEND_A_OTIME" =>
              /\ version >= 2
              /\ i > 1
              /\ IsOkCall(tlv_calls[i - 1], "BTRFS_SEND_A_CTIME")
              /\ tlv_calls[i].index =
                   tlv_calls[i - 1].index + l_tlv + tlv_calls[i - 1].l_attr
         /\ tlv_calls[i].attr_type = "BTRFS_SEND_A_CTIME" =>
              /\ i > 3
              /\ IsOkCall(tlv_calls[i - 1], "BTRFS_SEND_A_MTIME")
              /\ IsOkCall(tlv_calls[i - 2], "BTRFS_SEND_A_ATIME")
              /\ IsOkCall(tlv_calls[i - 3], "BTRFS_SEND_A_PATH")
              /\ tlv_calls[i].index =
                   tlv_calls[i - 1].index + l_tlv + tlv_calls[i - 1].l_attr
         /\ (IsOkCall(tlv_calls[i], "BTRFS_SEND_A_CTIME") /\ version >= 2) =>
              \/ /\ i < Len(tlv_calls)
                 /\ tlv_calls[i + 1].attr_type = "BTRFS_SEND_A_OTIME"
    /\ OpsNamed(commands, "utimes") =
         Len(SelectSeq(tlv_calls,
                       LAMBDA c : IsOkCall(c, IF version >= 2
                                              THEN "BTRFS_SEND_A_OTIME"
                                              ELSE "BTRFS_SEND_A_CTIME")))

\* a version-1 stream with a utimes command, decoded to the end
C10_Witness ==
    /\ Returned
    /\ version = 1
    /\ \E i \in 1..Len(Log) :
         /\ Log[i].command = "utimes"
         /\ Log[i].atime = [sec |-> 3, nanos |-> 5]
         /\ Log[i].otime = [sec |-> 0, nanos |-> 0]

-----------------------------------------------------------------------------
(* The commands of a buffer, found from the declared lengths alone *)

\* the body length and the command code the header at pos declares
DeclaredLen(pos) == LittleEndian(SubSeq(stream, pos + 1, pos + 4))
CodeAt(pos) == LittleEndian(SubSeq(stream, pos + 5, pos + 6))
HeaderFits(pos) == pos + l_head <= Len(stream)
IsEndAt(pos) == CodeAt(pos) = SendCmdValue("BTRFS_SEND_C_END")

\* the position of the header of the i-th command (0-based)
RECURSIVE HeaderPos(_)
HeaderPos(i) ==
    IF i = 0 THEN l_stream_head
    ELSE HeaderPos(i - 1) + l_head + DeclaredLen(HeaderPos(i - 1))

\* the bytes of the command whose header is at pos
CmdAt(pos) == PySlice(stream, pos, pos + l_head + DeclaredLen(pos))

\* the version the stream header declares
DeclaredVersion == LittleEndian(SubSeq(stream, 14, 17))

\* the well-formed commands of a stream of version v, rename and end left
\* out: utimes has an OTIME attribute from version 2 on, and none before
RoundTripCmds(v) ==
    { c \in CoreCmds \cup WellFormedProbes :
        /\ LittleEndian(SubSeq(c, 5, 6)) \notin
             { SendCmdValue("BTRFS_SEND_C_RENAME"),
               SendCmdValue("BTRFS_SEND_C_END") }
        /\ LittleEndian(SubSeq(c, 5, 6)) = SendCmdValue("BTRFS_SEND_C_UTIMES")
             => (c = Cmd("BTRFS_SEND_C_UTIMES", UtimesV1)) = (v < 2) }

\* from pos on the buffer is well-formed commands, none of them rename or
\* end, then an end command and nothing more
RECURSIVE RoundTripFrom(_)
RoundTripFrom(pos) ==
    /\ HeaderFits(pos)
    /\ IF IsEndAt(pos) THEN CmdAt(pos) = End /\ pos + l_head = Len(stream)
       ELSE /\ CmdAt(pos) \in RoundTripCmds(DeclaredVersion)
            /\ RoundTripFrom(pos + l_head + DeclaredLen(pos))

RoundTripStream ==
    /\ Len(stream) >= l_stream_head
    /\ SubSeq(stream, 1, 13) = BTRFS_SEND_STREAM_MAGIC \o <<0>>
    /\ DeclaredVersion \in {1, 2}
    /\ RoundTripFrom(l_stream_head)

\* the number of commands before the first end command
RECURSIVE CmdsBeforeEnd(_)
CmdsBeforeEnd(pos) ==
    IF ~HeaderFits(pos) \/ IsEndAt(pos) THEN 0
    ELSE 1 + CmdsBeforeEnd(pos + l_head + DeclaredLen(pos))

\* C11 (as stated): a well-formed stream of the header, n commands none of
\* which is rename or end, and a final end command decodes, without error,
\* to a log of exactly n + 1 entries: entry i < n is the operation of the
\* i-th command with cmd_ref = i, and the last entry is end with
\* cmd_ref = n.
C11_RoundTrip ==
    RoundTripStream =>
      /\ pc # "raised"
      /\ Returned =>
           /\ Len(Log) = CmdsBeforeEnd(l_stream_head) + 1
           /\ \A i \in 0..CmdsBeforeEnd(l_stream_head) :
                /\ Log[i + 1].command = CmdShort[CodeAt(HeaderPos(i)) + 1]
                /\ HasRef(Log[i + 1])
                /\ Log[i + 1].cmd_ref = i

-----------------------------------------------------------------------------
\* the end of the attribute a getter call read
CallEnd(c) == c.index + l_tlv + c.l_attr

\* C12: after a command that is not the last one, the next command header
\* is read at the position of the current header plus 10 plus the body
\* length that header declares, whatever the getters of the command
\* consumed.
C12_NextHeaderAtDeclaredLength ==
    [][(pc = "parse" /\ pc' = "parse") =>
         /\ HeaderFits(offset)
         /\ offset' = offset + l_head + DeclaredLen(offset)]_vars

\* the getters of the last command consumed fewer bytes than its header
\* declared, and the next header is about to be read after the declared
\* length
C12_Witness ==
    /\ pc = "parse"
    /\ Len(commands) >= 2
    /\ tlv_calls # <<>>
    /\ tlv_calls[Len(tlv_calls)].ok
    /\ CallEnd(tlv_calls[Len(tlv_calls)]) + 3 = offset
    /\ HeaderFits(offset)

-----------------------------------------------------------------------------
CloneKeys ==
    {"command", "path", "file_offset", "clone_len", "clone_uuid",
     "clone_transid", "clone_path", "clone_offset", "cmd_ref"}

\* the names of the attribute catalog
AttrNames == {SendAttr[k] : k \in 1..Len(SendAttr)}

\* C13 (as stated): a clone command whose body holds its attributes
\* back-to-back in the declared order decodes into one clone operation
\* with path, file_offset, clone_len, clone_uuid, clone_transid, clone_path
\* and clone_offset: the command does not raise, every attribute the
\* getters are asked for is a name of the catalog, and every field is read
\* where the one before it ended.
C13_CloneDecodes ==
    /\ \A i \in 1..Len(tlv_calls) : tlv_calls[i].attr_type \in AttrNames
    /\ (pc = "raised" /\ offset >= l_stream_head + l_head) =>
         CmdAt(offset - l_head) # CloneCmd
    /\ \A i \in 1..Len(commands) :
         commands[i].command = "clone" => DOMAIN commands[i] = CloneKeys
    /\ \A i \in 2..Len(tlv_calls) :
         (tlv_calls[i].attr_type \in
            {"BTRFS_SEND_A_CLONE_LEN", "BTRFS_SEND_A_CLONE_TRANSID",
             "BTRFS_SEND_A_CLONE_PATH", "BTRFS_SEND_A_CLONE_OFFSET"})
           => tlv_calls[i].index = CallEnd(tlv_calls[i - 1])

-----------------------------------------------------------------------------
Decoding == pc = "parse"
DecodeOver == pc \in {"returned", "raised"}

\* C14: decode() terminates on every buffer that passed header validation:
\* an iteration after which the loop goes on moves the read position
\* forward by at least 10, the position never passes the end of the buffer
\* without the next header read raising, and the loop ends, by the end
\* command or by the first error.
C14_DecodeTerminates ==
    /\ [][(Decoding /\ Decoding') => offset' >= offset + l_head]_vars
    /\ [][(Decoding /\ ~HeaderFits(offset)) =>
            (pc' = "raised" /\ err' = StructError(l_head))]_vars
    /\ [](Decoding =>
           Dispatch(offset, cmd_ref).kind \in {"yield", "end", "raise"})
    /\ [][Decoding => (Decoding' \/ DecodeOver')]_vars
    /\ [][DecodeOver => UNCHANGED vars]_vars
    /\ Decoding ~> DecodeOver

\* the loop went through two commands and ended on a header read past the
\* end of the buffer
C14_Witness ==
    /\ pc = "raised"
    /\ err = StructError(l_head)
    /\ Len(commands) >= 2
    /\ offset > Len(stream)

-----------------------------------------------------------------------------
\* commands[r], as print_by_paths looks an operation up (Python counts
\* from 0)
Lookup(log, r) == log[r + 1]

\* C15: when decode() has returned, every cmd_ref r in a list of the
\* PathIndex is an index of the log, the entry at r is the operation that
\* carries cmd_ref r, and the path that operation affects is the key r is
\* filed under, whatever the mix of commands, unspec and synthetic
\* renamed_from included.
C15_RefsIndexTheLog ==
    Returned =>
      \A k \in 1..Len(Index) : \A n \in 1..Len(Index[k].refs) :
        /\ Index[k].refs[n] \in 0..(Len(Log) - 1)
        /\ HasRef(Lookup(Log, Index[k].refs[n]))
        /\ Lookup(Log, Index[k].refs[n]).cmd_ref = Index[k].refs[n]
        /\ DerivedPath(Lookup(Log, Index[k].refs[n])) = Index[k].path

\* a returned log holding an unspec and, after it, a renamed_from and its
\* rename, both looked up through the index
C15_Witness ==
    /\ Returned
    /\ bogus
    /\ \E i \in 1..Len(Log) : \E k, m \in 1..Len(Index) :
         /\ Log[i].command = "unspec"
         /\ \E n \in 1..Len(Index[k].refs) :
              /\ Index[k].refs[n] >= i
              /\ Lookup(Log, Index[k].refs[n]).command = "renamed_from"
         /\ \E n \in 1..Len(Index[m].refs) :
              /\ Index[m].refs[n] > i
              /\ Lookup(Log, Index[m].refs[n]).command = "rename"

====
